---- MODULE Spec2Model ----
(***************************************************************************)
(* ChatService (apps/chatbot/services/chat_service.py): conversation       *)
(* orchestration, intent classification with cache, context maintenance    *)
(* and the rule-based fallback responder.                                  *)
(*                                                                         *)
(* Text is a sequence of one-character strings.  An accented character is  *)
(* one element written with an ASCII mark: "a~" is a-tilde, "c," is        *)
(* c-cedilla, "e'" "i'" "a'" "o'" "u'" carry an acute, "e^" "a^" "o^" a    *)
(* circumflex.  Python None is a tagged value, never an empty text.        *)
(***************************************************************************)
EXTENDS Integers, Sequences, FiniteSets, TLC

VARIABLES
    now,            \* timezone.now(), in seconds
    ticks,          \* number of clock advances so far (bounds the run)
    is_available,   \* AIService.is_available
    conversations,  \* Conversation table: sequence, id = index
    messages,       \* Message table: sequence, id = index, creation order
    contexts,       \* ChatContext table: <<conversation, type, key>> -> record
    cache,          \* django cache: key -> [value, expires]
    computed,       \* history: message text -> last payload computed for it
    detected,       \* history: conversation -> its intents, last detected last
    result          \* the last call: operation, arguments and returned value

vars == <<now, ticks, is_available, conversations, messages, contexts, cache,
          computed, detected, result>>

(***************************************************************************)
(* Text primitives: str.lower, substring test, str.split, hash             *)
(***************************************************************************)
UpperChars ==
    <<"A","B","C","D","E","F","G","H","I","J","K","L","M","N","O","P","Q","R",
      "S","T","U","V","W","X","Y","Z","A~","E'","C,","A'","O'">>

LowerChars ==
    <<"a","b","c","d","e","f","g","h","i","j","k","l","m","n","o","p","q","r",
      "s","t","u","v","w","x","y","z","a~","e'","c,","a'","o'">>

LowerChar(c) ==
    IF \E i \in DOMAIN UpperChars : UpperChars[i] = c
    THEN LowerChars[CHOOSE i \in DOMAIN UpperChars : UpperChars[i] = c]
    ELSE c

\* str.lower()
Lower(s) == [i \in DOMAIN s |-> LowerChar(s[i])]

\* Python "k in s" on strings: k occurs as a contiguous substring of s
Contains(k, s) ==
    \E i \in 1..(Len(s) - Len(k) + 1) : SubSeq(s, i, i + Len(k) - 1) = k

AnyContained(ks, s) == \E j \in DOMAIN ks : Contains(ks[j], s)

RECURSIVE SplitFrom(_, _, _, _)
SplitFrom(s, i, cur, acc) ==
    IF i > Len(s)
    THEN IF cur = <<>> THEN acc ELSE Append(acc, cur)
    ELSE IF s[i] = " "
         THEN SplitFrom(s, i + 1, <<>>, IF cur = <<>> THEN acc ELSE Append(acc, cur))
         ELSE SplitFrom(s, i + 1, Append(cur, s[i]), acc)

\* str.split(): the maximal runs of non-blank characters
Split(s) == SplitFrom(s, 1, <<>>, <<>>)

\* str.strip()
RECURSIVE Strip(_)
Strip(s) ==
    IF s = <<>> THEN s
    ELSE IF s[1] = " " THEN Strip(Tail(s))
    ELSE IF s[Len(s)] = " " THEN Strip(SubSeq(s, 1, Len(s) - 1))
    ELSE s

\* Width of the modelled hash: Python's hash() is 64 bits wide; the model keeps
\* HashBuckets values so that two different texts can share a cache key.
HashBuckets == 5

CharCode(c) ==
    IF \E i \in DOMAIN LowerChars : LowerChars[i] = c
    THEN CHOOSE i \in DOMAIN LowerChars : LowerChars[i] = c
    ELSE 0

RECURSIVE HashFrom(_, _, _)
HashFrom(s, i, h) ==
    IF i > Len(s) THEN h
    ELSE HashFrom(s, i + 1, (h * 31 + CharCode(s[i])) % HashBuckets)

\* hash(text): deterministic, not injective
Hash(s) == HashFrom(s, 1, 0)

\* f"intent_analysis_{hash(message.lower())}"
CacheKey(message) == Hash(Lower(message))

(***************************************************************************)
(* Tables of the source                                                    *)
(***************************************************************************)
\* The nine intents named in the classification prompt
Intents ==
    <<"workout_request", "technique_question", "nutrition_advice",
      "progress_inquiry", "motivation_need", "equipment_question",
      "injury_concern", "schedule_planning", "general_question">>

IntentSet == {Intents[i] : i \in DOMAIN Intents}

\* intent_keywords of _rule_based_intent_analysis, in dictionary order
intent_keywords ==
  << [intent |-> "workout_request", keywords |-> <<
        <<"t","r","e","i","n","o">>,
        <<"e","x","e","r","c","i'","c","i","o">>,
        <<"w","o","r","k","o","u","t">>,
        <<"s","e'","r","i","e">>,
        <<"r","e","p","e","t","i","c,","a~","o">>,
        <<"t","r","e","i","n","a","r">>
      >>],
     [intent |-> "technique_question", keywords |-> <<
        <<"c","o","m","o">>,
        <<"t","e'","c","n","i","c","a">>,
        <<"f","o","r","m","a">>,
        <<"p","o","s","t","u","r","a">>,
        <<"e","x","e","c","u","c,","a~","o">>,
        <<"e","x","e","c","u","t","a","r">>
      >>],
     [intent |-> "nutrition_advice", keywords |-> <<
        <<"a","l","i","m","e","n","t","a","c,","a~","o">>,
        <<"d","i","e","t","a">>,
        <<"n","u","t","r","i","c,","a~","o">>,
        <<"p","r","o","t","e","i'","n","a">>,
        <<"c","o","m","e","r">>,
        <<"c","o","m","i","d","a">>
      >>],
     [intent |-> "progress_inquiry", keywords |-> <<
        <<"p","r","o","g","r","e","s","s","o">>,
        <<"r","e","s","u","l","t","a","d","o">>,
        <<"e","v","o","l","u","c,","a~","o">>,
        <<"m","e","l","h","o","r","a">>,
        <<"c","r","e","s","c","i","m","e","n","t","o">>
      >>],
     [intent |-> "motivation_need", keywords |-> <<
        <<"m","o","t","i","v","a","c,","a~","o">>,
        <<"d","e","s","a^","n","i","m","o">>,
        <<"p","r","e","g","u","i","c,","a">>,
        <<"f","o","r","c,","a">>,
        <<"c","o","n","s","e","g","u","i","r">>
      >>],
     [intent |-> "equipment_question", keywords |-> <<
        <<"e","q","u","i","p","a","m","e","n","t","o">>,
        <<"a","p","a","r","e","l","h","o">>,
        <<"p","e","s","o">>,
        <<"h","a","l","t","e","r","e","s">>,
        <<"a","c","a","d","e","m","i","a">>
      >>],
     [intent |-> "injury_concern", keywords |-> <<
        <<"d","o","r">>,
        <<"l","e","s","a~","o">>,
        <<"m","a","c","h","u","c","a">>,
        <<"p","r","o","b","l","e","m","a">>,
        <<"d","e","s","c","o","n","f","o","r","t","o">>
      >>],
     [intent |-> "schedule_planning", keywords |-> <<
        <<"r","o","t","i","n","a">>,
        <<"h","o","r","a'","r","i","o">>,
        <<"f","r","e","q","u","e^","n","c","i","a">>,
        <<"q","u","a","n","d","o">>,
        <<"q","u","a","n","t","a","s"," ","v","e","z","e","s">>
      >>] >>

\* ['dor', 'lesao', 'urgente'] of the urgency test
UrgencyWords == <<<<"d","o","r">>, <<"l","e","s","a~","o">>, <<"u","r","g","e","n","t","e">>>>

\* action_patterns of _process_ai_response
action_patterns ==
  << [action |-> "try_exercise", patterns |-> <<<<"e","x","p","e","r","i","m","e","n","t","e">>, <<"t","e","n","t","e"," ","f","a","z","e","r">>, <<"f","a","c,","a">>>>],
     [action |-> "rest_recovery", patterns |-> <<<<"d","e","s","c","a","n","s","e">>, <<"p","a","u","s","e">>, <<"r","e","c","u","p","e","r","a","c,","a~","o">>>>],
     [action |-> "seek_professional", patterns |-> <<<<"c","o","n","s","u","l","t","e">>, <<"p","r","o","c","u","r","e"," ","u","m">>, <<"m","e'","d","i","c","o">>, <<"f","i","s","i","o","t","e","r","a","p","e","u","t","a">>>>],
     [action |-> "schedule_workout", patterns |-> <<<<"a","g","e","n","d","e">>, <<"p","l","a","n","e","j","e">>, <<"o","r","g","a","n","i","z","e">>>>],
     [action |-> "track_progress", patterns |-> <<<<"a","n","o","t","e">>, <<"r","e","g","i","s","t","r","e">>, <<"a","c","o","m","p","a","n","h","e">>>>] >>

\* common_exercises of _process_ai_response
common_exercises == <<<<"a","g","a","c","h","a","m","e","n","t","o">>, <<"f","l","e","x","a~","o">>, <<"c","o","r","r","i","d","a">>, <<"c","a","m","i","n","h","a","d","a">>, <<"p","r","a","n","c","h","a">>, <<"a","b","d","o","m","i","n","a","i","s">>>>

(***************************************************************************)
(* Values exchanged with the classifier.  A Python value is a record of    *)
(* one shape: type says what it is ("none", "dict", "list"), keys are the  *)
(* keys a dict holds; a field whose key is absent carries a filler.        *)
(***************************************************************************)
\* Python None where an intent is read
NoneIntent == "<None>"

\* Numbers are fractions <<numerator, denominator>>
Half == <<1, 2>>

PyValue(type, keys, intent, confidence, secondary, keywords, urgency) ==
    [type |-> type, keys |-> keys, intent |-> intent, confidence |-> confidence,
     secondary_intents |-> secondary, keywords |-> keywords,
     urgency_level |-> urgency]

NoneValue == PyValue("none", {}, NoneIntent, Half, <<>>, <<>>, "")

\* a JSON array: parses, is true in a test, and has no .get
ListValue == PyValue("list", {}, NoneIntent, Half, <<>>, <<>>, "")

\* the dict built by hand at line 264
DefaultIntent ==
    PyValue("dict", {"intent", "confidence"}, "general_question", Half, <<>>, <<>>, "")

\* dict.get(key, default) for the key 'intent'
GetIntent(p, default) == IF "intent" \in p.keys THEN p.intent ELSE default

\* truth value of a Python object in an if
Truthy(p) ==
    CASE p.type = "none" -> FALSE
      [] p.type = "dict" -> p.keys # {}
      [] OTHER -> TRUE

Range(s) == {s[i] : i \in DOMAIN s}

\* s[-n:]
LastN(s, n) == IF Len(s) <= n THEN s ELSE SubSeq(s, Len(s) - n + 1, Len(s))

(***************************************************************************)
(* _rule_based_intent_analysis                                             *)
(***************************************************************************)
\* sum([1 for keyword in keywords if keyword in message_lower])
KeywordScore(keywords, message_lower) ==
    Cardinality({j \in DOMAIN keywords : Contains(keywords[j], message_lower)})

\* a/b < c/d for positive denominators
FracLess(a, b) == a[1] * b[2] < b[1] * a[2]

\* the loop over intent_keywords.items(): the score of the first i intents
RECURSIVE KeywordScores(_, _)
KeywordScores(message_lower, i) ==
    IF i = 0 THEN <<>>
    ELSE Append(KeywordScores(message_lower, i - 1),
                KeywordScore(intent_keywords[i].keywords, message_lower))

\* Variant: max() returns the last maximal key
RulePayloadLastMaximal(message_lower, score) ==
    LET n == Len(intent_keywords)
        scored == {i \in 1..n : score[i] > 0}
        value(i) == <<score[i], Len(intent_keywords[i].keywords)>>
        main == CHOOSE i \in scored :
                  \A j \in scored :
                     /\ ~FracLess(value(i), value(j))
                     /\ (~FracLess(value(j), value(i)) => i >= j)
        main_intent == IF scored # {} THEN intent_keywords[main].intent
                       ELSE "general_question"
        confidence == IF scored # {} THEN value(main) ELSE Half
        secondary == SelectSeq([i \in 1..n |-> i],
                        LAMBDA i : /\ i \in scored
                                   /\ intent_keywords[i].intent # main_intent
                                   /\ FracLess(<<1, 5>>, value(i)))
        all_keywords == UNION {Range(intent_keywords[i].keywords) : i \in 1..n}
    IN  PyValue("dict",
                {"intent", "confidence", "secondary_intents", "keywords",
                 "urgency_level", "requires_personalization"},
                main_intent, confidence,
                [k \in DOMAIN secondary |-> intent_keywords[secondary[k]].intent],
                SelectSeq(Split(message_lower), LAMBDA w : w \in all_keywords),
                IF AnyContained(UrgencyWords, message_lower) THEN "high" ELSE "medium")

\* the rest of _rule_based_intent_analysis, given the scores
RulePayload(message_lower, score) ==
    LET n == Len(intent_keywords)
        \* intent_scores holds the intents with score > 0, in table order
        scored == {i \in 1..n : score[i] > 0}
        value(i) == <<score[i], Len(intent_keywords[i].keywords)>>
        \* max(intent_scores, key=intent_scores.get): the first maximal key
        main == CHOOSE i \in scored :
                  \A j \in scored :
                     /\ ~FracLess(value(i), value(j))
                     /\ (~FracLess(value(j), value(i)) => i <= j)
        main_intent == IF scored # {} THEN intent_keywords[main].intent
                       ELSE "general_question"
        confidence == IF scored # {} THEN value(main) ELSE Half
        secondary == SelectSeq([i \in 1..n |-> i],
                        LAMBDA i : /\ i \in scored
                                   /\ intent_keywords[i].intent # main_intent
                                   /\ FracLess(<<1, 5>>, value(i)))
        all_keywords == UNION {Range(intent_keywords[i].keywords) : i \in 1..n}
    IN  PyValue("dict",
                {"intent", "confidence", "secondary_intents", "keywords",
                 "urgency_level", "requires_personalization"},
                main_intent, confidence,
                [k \in DOMAIN secondary |-> intent_keywords[secondary[k]].intent],
                SelectSeq(Split(message_lower), LAMBDA w : w \in all_keywords),
                IF AnyContained(UrgencyWords, message_lower) THEN "high" ELSE "medium")

\* message_lower and the scores are bound over one-element sets, so that each
\* is computed once
RuleBasedIntentAnalysis(message) ==
    CHOOSE payload \in
        UNION {{RulePayload(message_lower, score) :
                    score \in {KeywordScores(message_lower, Len(intent_keywords))}} :
               message_lower \in {Lower(message)}} : TRUE

(***************************************************************************)
(* _ai_intent_analysis: what comes back for one completion request.        *)
(* reply.kind is "no_response" (None or ''), "request_error" (the request  *)
(* raised), "not_json" (json.loads raised) or "json" (reply.value parsed). *)
(***************************************************************************)
AiIntentAnalysis(reply) ==
    IF reply.kind = "json" THEN reply.value ELSE NoneValue

(***************************************************************************)
(* django cache                                                            *)
(***************************************************************************)
\* cache.get(key): the stored value until its expiry, else None
CacheGet(ch, key, t) ==
    IF key \in DOMAIN ch /\ ch[key].expires > t THEN ch[key].value ELSE NoneValue

\* cache.set(key, value, timeout)
CacheSet(ch, key, value, timeout, t) ==
    (key :> [value |-> value, expires |-> t + timeout]) @@ ch

\* timeout of an AI-derived entry (seconds)
AiCacheTimeout == 3600

\* timeout of a rule-based entry (seconds)
RuleCacheTimeout == 1800

(***************************************************************************)
(* _analyze_message_intent: returns the payload and the cache it leaves    *)
(***************************************************************************)
\* Variant: the AI-derived payload is cached with the rule-based timeout
AnalyzeMessageIntentOneTimeout(message, ch, available, reply, t) ==
    LET cache_key == CacheKey(message)
        cached_intent == CacheGet(ch, cache_key, t)
        ai_intent == AiIntentAnalysis(reply)
        rule_intent == RuleBasedIntentAnalysis(message)
    IN  IF Truthy(cached_intent)
        THEN [payload |-> cached_intent, cache |-> ch, source |-> "cache"]
        ELSE IF available /\ Truthy(ai_intent)
        THEN [payload |-> ai_intent,
              cache |-> CacheSet(ch, cache_key, ai_intent, RuleCacheTimeout, t),
              source |-> "ai"]
        ELSE [payload |-> rule_intent,
              cache |-> CacheSet(ch, cache_key, rule_intent, RuleCacheTimeout, t),
              source |-> "rule"]

AnalyzeMessageIntent(message, ch, available, reply, t) ==
    LET cache_key == CacheKey(message)
        cached_intent == CacheGet(ch, cache_key, t)
        ai_intent == AiIntentAnalysis(reply)
        rule_intent == RuleBasedIntentAnalysis(message)
    IN  IF Truthy(cached_intent)
        THEN [payload |-> cached_intent, cache |-> ch, source |-> "cache"]
        ELSE IF available /\ Truthy(ai_intent)
        THEN [payload |-> ai_intent,
              cache |-> CacheSet(ch, cache_key, ai_intent, AiCacheTimeout, t),
              source |-> "ai"]
        ELSE [payload |-> rule_intent,
              cache |-> CacheSet(ch, cache_key, rule_intent, RuleCacheTimeout, t),
              source |-> "rule"]

(***************************************************************************)
(* ChatContext: one record per (conversation, type, key), last write wins  *)
(***************************************************************************)
SetContext(cx, cid, ctype, key, value, relevance) ==
    (<<cid, ctype, key>> :> [context_value |-> value, relevance |-> relevance]) @@ cx

HasContext(cx, cid, ctype, key) == <<cid, ctype, key>> \in DOMAIN cx

\* how many stored topics are kept
TopicsKept == 5

\* a message longer than this many words is "detailed"
DetailedWords == 20

(***************************************************************************)
(* _update_conversation_context                                            *)
(***************************************************************************)
\* Variant: the intent is appended without the "not in topics" test
UpdateConversationContextNoTest(cx, cid, message, intent_analysis) ==
    LET intent == GetIntent(intent_analysis, NoneIntent)
    IN  IF intent = NoneIntent THEN cx
        ELSE IF HasContext(cx, cid, "preferences", "topics_of_interest")
        THEN SetContext(cx, cid, "preferences", "topics_of_interest",
                        [topics |-> LastN(Append(
                            cx[<<cid, "preferences", "topics_of_interest">>]
                              .context_value.topics, intent), TopicsKept)], 60)
        ELSE SetContext(cx, cid, "preferences", "topics_of_interest",
                        [topics |-> <<intent>>], 60)

UpdateConversationContext(cx, cid, message, intent_analysis) ==
    LET message_length == Len(Split(message))
        cx1 == IF message_length > DetailedWords
               THEN SetContext(cx, cid, "preferences", "message_style",
                               [prefers_detailed |-> TRUE,
                                last_message_length |-> message_length], 70)
               ELSE cx
        intent == GetIntent(intent_analysis, NoneIntent)
    IN  IF intent = NoneIntent THEN cx1
        ELSE IF HasContext(cx1, cid, "preferences", "topics_of_interest")
        THEN LET topics == cx1[<<cid, "preferences", "topics_of_interest">>]
                             .context_value.topics
                 kept == IF intent \notin Range(topics)
                         THEN LastN(Append(topics, intent), TopicsKept)
                         ELSE topics
             IN  SetContext(cx1, cid, "preferences", "topics_of_interest",
                            [topics |-> kept], 60)
        ELSE SetContext(cx1, cid, "preferences", "topics_of_interest",
                        [topics |-> <<intent>>], 60)

(***************************************************************************)
(* _generate_fallback_response.  A canned text is written as the name of   *)
(* its table, the key of its entry, and the name interpolated into it.     *)
(***************************************************************************)
\* the keys of fallback_responses
FallbackKeys ==
    {"workout_request", "technique_question", "nutrition_advice",
     "progress_inquiry", "motivation_need", "injury_concern", "general_question"}

\* Variant: the entry for motivation_need is missing from the table
GenerateFallbackResponseShortTable(first_name, intent_analysis) ==
    LET intent == GetIntent(intent_analysis, "general_question")
        user_name == IF first_name # <<>> THEN first_name
                     ELSE <<"a","m","i","g","o","(","a",")">>
    IN  <<"fallback_responses",
          IF intent \in FallbackKeys \ {"motivation_need"}
          THEN intent ELSE "general_question">>
        \o user_name

GenerateFallbackResponse(first_name, intent_analysis) ==
    LET intent == GetIntent(intent_analysis, "general_question")
        user_name == IF first_name # <<>> THEN first_name
                     ELSE <<"a","m","i","g","o","(","a",")">>
    IN  <<"fallback_responses",
          IF intent \in FallbackKeys THEN intent ELSE "general_question">>
        \o user_name

(***************************************************************************)
(* The people using the service (django User, UserProfile, WorkoutSession) *)
(***************************************************************************)
Users == {"ana", "guest"}

\* User.first_name; '' when the account has none
FirstName(user) == IF user = "ana" THEN <<"A","n","a">> ELSE <<>>

\* UserProfile.objects.get(user=user) finds a profile
HasProfile(user) == user = "ana"

\* completed sessions of the last 7 days, most recent first, [:5]
RecentSessions(user) == IF user = "ana" THEN <<"Treino A", "Treino B">> ELSE <<>>

(***************************************************************************)
(* Records of the three tables                                             *)
(***************************************************************************)
\* an unset number (None)
NoneNumber == <<0, 0>>

\* an unset text (None), as distinct from the empty text ''
NoneText == <<"<None>">>

\* "not x" for an optional text
FalsyText(x) == x = NoneText \/ x = <<>>

\* "if x" for an optional number
TruthyNumber(x) == x # NoneNumber /\ x[1] # 0

\* Conversation.objects.create(user=..., conversation_type=..., ai_model_used=...)
NewConversation(user, conversation_type, t) ==
    [user |-> user, conversation_type |-> conversation_type, status |-> "active",
     created_at |-> t, user_satisfaction_rating |-> NoneNumber]

\* hours after which Conversation.is_expired() holds
ConversationTimeoutHours == 24

\* Conversation.is_expired()
IsExpired(conversation, t) ==
    t - conversation.created_at > ConversationTimeoutHours * 3600

\* conversation.messages, in creation order
MessagesOf(ms, cid) == SelectSeq(ms, LAMBDA m : m.conversation = cid)

\* Conversation.get_last_messages(n): the n newest, newest first
GetLastMessages(ms, cid, n) ==
    LET mine == LastN(MessagesOf(ms, cid), n)
    IN  [i \in DOMAIN mine |-> mine[Len(mine) + 1 - i]]

\* reversed(sequence)
Reversed(s) == [i \in DOMAIN s |-> s[Len(s) + 1 - i]]

\* _save_user_message
SaveUserMessage(ms, cid, content) ==
    Append(ms, [conversation |-> cid, message_type |-> "user", content |-> content,
                intent_detected |-> NoneIntent, confidence_score |-> NoneNumber])

\* _save_ai_message
SaveAiMessage(ms, cid, content, confidence_score, intent) ==
    Append(ms, [conversation |-> cid, message_type |-> "ai", content |-> content,
                intent_detected |-> intent, confidence_score |-> confidence_score])

\* Variant: save() inserts a second row instead of updating the first
SetIntentDetectedAsNewRow(ms, id, intent) ==
    Append(ms, [ms[id] EXCEPT !.intent_detected = intent])

\* user_message.intent_detected = ...; user_message.save()
SetIntentDetected(ms, id, intent) ==
    [ms EXCEPT ![id].intent_detected = intent]

(***************************************************************************)
(* _initialize_conversation_context                                        *)
(***************************************************************************)
InitializeConversationContext(cx, cid, user) ==
    LET cx1 == IF HasProfile(user)
               THEN SetContext(cx, cid, "user_profile", "basic_info",
                               [goal |-> "lose_weight", activity_level |-> "beginner"],
                               100)
               ELSE SetContext(cx, cid, "user_profile", "basic_info",
                               [profile_complete |-> FALSE], 50)
        cx2 == SetContext(cx1, cid, "workout_history", "recent_workouts",
                          [recent_sessions |-> RecentSessions(user)], 80)
    IN  SetContext(cx2, cid, "preferences", "conversation_style",
                   [preferred_response_length |-> "medium",
                    technical_level |-> "intermediate"], 60)

(***************************************************************************)
(* _build_conversation_context and _build_fitness_chat_system_prompt.      *)
(* context_data[type][key] is the stored value, so user_profile.get(k) and *)
(* workout_history.get(k) look k up among the context keys of that type.   *)
(* The prompt is the sequence of the blocks it is made of.                 *)
(***************************************************************************)
\* the keys of intent_contexts
IntentContextKeys ==
    {"workout_request", "technique_question", "nutrition_advice",
     "progress_inquiry", "motivation_need", "injury_concern"}

BuildFitnessChatSystemPrompt(cx, cid, intent_analysis) ==
    LET intent == GetIntent(intent_analysis, "general_question")
    IN  <<"base_prompt">>
        \o (IF HasContext(cx, cid, "user_profile", "goal") THEN <<"goal">> ELSE <<>>)
        \o (IF HasContext(cx, cid, "user_profile", "activity_level")
            THEN <<"level">> ELSE <<>>)
        \o (IF intent \in IntentContextKeys THEN <<"focus", intent>> ELSE <<>>)
        \o (IF HasContext(cx, cid, "workout_history", "recent_sessions")
            THEN <<"history">> ELSE <<>>)
        \o <<"closing">>

(***************************************************************************)
(* _process_ai_response                                                    *)
(***************************************************************************)
ProcessAiResponse(response) ==
    LET response_lower == Lower(response)
        hit == SelectSeq([i \in DOMAIN action_patterns |-> i],
                  LAMBDA i : AnyContained(action_patterns[i].patterns, response_lower))
    IN  [success |-> TRUE,
         content |-> response,
         confidence_score |-> <<4, 5>>,
         suggested_actions |-> [k \in DOMAIN hit |-> action_patterns[hit[k]].action],
         workout_references |->
             SelectSeq(common_exercises, LAMBDA e : Contains(e, response_lower))]

\* the None that _generate_ai_response returns
NoAiResponse ==
    [success |-> FALSE, content |-> <<>>, confidence_score |-> NoneNumber,
     suggested_actions |-> <<>>, workout_references |-> <<>>]

\* how many stored messages are fetched, and how many of them are sent
HistoryFetched == 8

HistorySent == 6

(***************************************************************************)
(* _generate_ai_response.  reply.kind is "no_response", "request_error" or *)
(* "text" (reply.text is the completion).  request is the message list of  *)
(* the completion request, empty when none is made.                        *)
(***************************************************************************)
ChatRequest(ms, cx, cid, message, intent_analysis) ==
    LET recent_messages == GetLastMessages(ms, cid, HistoryFetched)
        rev == Reversed(recent_messages)
        conversation_history ==
            [i \in DOMAIN rev |->
                [role |-> IF rev[i].message_type = "user" THEN "user" ELSE "assistant",
                 content |-> rev[i].content]]
    IN  <<[role |-> "system",
           content |-> BuildFitnessChatSystemPrompt(cx, cid, intent_analysis)]>>
        \o LastN(conversation_history, HistorySent)
        \o <<[role |-> "user", content |-> message]>>

GenerateAiResponse(available, reply) ==
    IF ~available THEN NoAiResponse
    ELSE IF reply.kind = "text" /\ reply.text # <<>>
    THEN ProcessAiResponse(reply.text)
    ELSE NoAiResponse

(***************************************************************************)
(* _generate_welcome_message and _ai_welcome_message                       *)
(***************************************************************************)
\* the keys of type_messages
WelcomeKeys ==
    {"workout_consultation", "progress_analysis", "motivation_chat",
     "technique_guidance", "general_fitness"}

GenerateWelcomeMessage(available, reply, user, conversation_type) ==
    LET user_name == IF FirstName(user) # <<>> THEN FirstName(user)
                     ELSE <<"a","t","l","e","t","a">>
    IN  IF available /\ reply.kind = "text" /\ reply.text # <<>>
        THEN [content |-> Strip(reply.text), confidence |-> <<9, 10>>]
        ELSE [content |-> <<"type_messages",
                            IF conversation_type \in WelcomeKeys
                            THEN conversation_type ELSE "general_fitness">>
                          \o user_name,
              confidence |-> <<4, 5>>]

(***************************************************************************)
(* process_user_message.  A store st is the four tables; an outcome is the *)
(* store the call leaves, the value it returns and the completion request  *)
(* it sent.                                                                *)
(***************************************************************************)
NotFound ==
    [kind |-> "error", error |-> "Conversa nao encontrada",
     suggestion |-> "Verifique o ID da conversa ou inicie uma nova"]

Expired ==
    [kind |-> "error", error |-> "Conversa expirada",
     suggestion |-> "Inicie uma nova conversa para continuar"]

ProcessingError ==
    [kind |-> "error", error |-> "Erro ao processar mensagem",
     suggestion |-> "Tente novamente ou reformule sua pergunta"]

\* Variant: the generic handler catches DoesNotExist first
NotFoundOutcomeGeneric(st) == [st |-> st, ret |-> ProcessingError, request |-> <<>>]

\* except Conversation.DoesNotExist (lines 166-170)
NotFoundOutcome(st) == [st |-> st, ret |-> NotFound, request |-> <<>>]

\* Variant: the expiry test runs after the user message is saved
ExpiredOutcomeAfterSave(st, cid, message) ==
    [st |-> [st EXCEPT !.messages = SaveUserMessage(st.messages, cid, message)],
     ret |-> Expired, request |-> <<>>]

\* if conversation.is_expired(): return (lines 104-108)
ExpiredOutcome(st, cid, message) == [st |-> st, ret |-> Expired, request |-> <<>>]

\* the reply branch (lines 124-164)
ReplyOutcome(st, available, cid, message, intent_analysis, ai_response, request) ==
    LET intent == GetIntent(intent_analysis, NoneIntent)
    IN  IF ai_response.success
        THEN LET ms == SaveAiMessage(st.messages, cid, ai_response.content,
                                     ai_response.confidence_score, intent)
             IN  [st |-> [st EXCEPT !.messages = ms],
                  ret |-> [kind |-> "ok", message_id |-> Len(ms),
                           response |-> ai_response.content,
                           conversation_updated |-> TRUE,
                           intent_detected |-> intent,
                           confidence_score |-> ai_response.confidence_score,
                           suggested_actions |-> ai_response.suggested_actions,
                           workout_references |-> ai_response.workout_references,
                           method |-> "ai_powered"],
                  request |-> request]
        ELSE LET fallback_response ==
                     GenerateFallbackResponse(
                         FirstName(st.conversations[cid].user), intent_analysis)
                 ms == SaveAiMessage(st.messages, cid, fallback_response,
                                     <<3, 5>>, intent)
             IN  [st |-> [st EXCEPT !.messages = ms],
                  ret |-> [kind |-> "ok", message_id |-> Len(ms),
                           response |-> fallback_response,
                           conversation_updated |-> TRUE,
                           intent_detected |-> intent,
                           confidence_score |-> NoneNumber,
                           suggested_actions |-> <<>>,
                           workout_references |-> <<>>,
                           method |-> "rule_based_fallback"],
                  request |-> request]

\* the body after the expiry test (lines 110-164, 171-176)
HandleMessage(st, available, t, cid, message, intent_reply, chat_reply) ==
    LET ms1 == SaveUserMessage(st.messages, cid, message)
        analysis == AnalyzeMessageIntent(message, st.cache, available, intent_reply, t)
        intent_analysis == analysis.payload
        st1 == [st EXCEPT !.messages = ms1, !.cache = analysis.cache]
    IN  IF intent_analysis.type # "dict"
        THEN \* intent_analysis.get raises AttributeError: except Exception
             [st |-> st1, ret |-> ProcessingError, request |-> <<>>]
        ELSE LET ms2 == SetIntentDetected(ms1, Len(ms1),
                            GetIntent(intent_analysis, "general_question"))
                 cx == UpdateConversationContext(st.contexts, cid, message,
                                                 intent_analysis)
                 st2 == [st1 EXCEPT !.messages = ms2, !.contexts = cx]
                 request == IF available
                            THEN ChatRequest(ms2, cx, cid, message, intent_analysis)
                            ELSE <<>>
             IN  ReplyOutcome(st2, available, cid, message, intent_analysis,
                              GenerateAiResponse(available, chat_reply), request)

ProcessOutcome(st, available, t, cid, message, intent_reply, chat_reply) ==
    IF cid \notin DOMAIN st.conversations THEN NotFoundOutcome(st)
    ELSE IF IsExpired(st.conversations[cid], t) THEN ExpiredOutcome(st, cid, message)
    ELSE HandleMessage(st, available, t, cid, message, intent_reply, chat_reply)

(***************************************************************************)
(* start_conversation                                                      *)
(***************************************************************************)
\* hours within which an active conversation is resumed
ResumeWindowHours == 2

\* Variant: the filter leaves out user=user
RecentConversationsAnyUser(cs, user, t) ==
    {c \in DOMAIN cs : /\ cs[c].status = "active"
                       /\ cs[c].created_at >= t - ResumeWindowHours * 3600}

\* Conversation.objects.filter(user=user, status='active', created_at__gte=...)
RecentConversations(cs, user, t) ==
    {c \in DOMAIN cs : /\ cs[c].user = user
                       /\ cs[c].status = "active"
                       /\ cs[c].created_at >= t - ResumeWindowHours * 3600}

\* if recent_conversation and not initial_message
ShouldResume(recent_conversation, initial_message) ==
    recent_conversation # 0 /\ FalsyText(initial_message)

\* recent_conversation is what .first() returned: an id, or 0 for None
StartOutcome(st, available, t, user, conversation_type, initial_message, recent_conversation, welcome_reply, intent_reply, chat_reply) ==
    IF ShouldResume(recent_conversation, initial_message)
    THEN [st |-> st,
          ret |-> [kind |-> "ok", conversation_id |-> recent_conversation,
                   status |-> "resumed",
                   conversation_type |->
                       st.conversations[recent_conversation].conversation_type,
                   ai_available |-> available]]
    ELSE LET cs == Append(st.conversations,
                          NewConversation(user, conversation_type, t))
             cid == Len(cs)
             cx == InitializeConversationContext(st.contexts, cid, user)
             st1 == [st EXCEPT !.conversations = cs, !.contexts = cx]
             welcome == GenerateWelcomeMessage(available, welcome_reply, user,
                                               conversation_type)
             st2 == IF FalsyText(initial_message)
                    THEN [st1 EXCEPT !.messages =
                              SaveAiMessage(st1.messages, cid, welcome.content,
                                            welcome.confidence, NoneIntent)]
                    ELSE ProcessOutcome(
                             [st1 EXCEPT !.messages =
                                 SaveUserMessage(st1.messages, cid, initial_message)],
                             available, t, cid, initial_message,
                             intent_reply, chat_reply).st
         IN  [st |-> st2,
              ret |-> [kind |-> "ok", conversation_id |-> cid, status |-> "created",
                       conversation_type |-> conversation_type,
                       ai_available |-> available]]

(***************************************************************************)
(* end_conversation                                                        *)
(***************************************************************************)
EndOutcome(st, t, cid, user_rating) ==
    IF cid \notin DOMAIN st.conversations
    THEN [st |-> st, ret |-> [kind |-> "error", error |-> "Conversa nao encontrada"]]
    ELSE LET c == st.conversations[cid]
             ended == [c EXCEPT !.status = "completed",
                                !.user_satisfaction_rating =
                                    IF TruthyNumber(user_rating) THEN user_rating
                                    ELSE c.user_satisfaction_rating]
         IN  [st |-> [st EXCEPT !.conversations[cid] = ended],
              ret |-> [kind |-> "ok", conversation_ended |-> TRUE,
                       total_messages |-> Len(MessagesOf(st.messages, cid)),
                       duration_minutes |-> (t - c.created_at) \div 60,
                       rating_saved |-> user_rating # NoneNumber]]

(***************************************************************************)
(* Inputs: message texts, completions, ratings                             *)
(***************************************************************************)
MsgDor == <<"S","i","n","t","o"," ","m","u","i","t","a"," ","d","o","r"," ","n","o"," ","j","o","e","l","h","o">>
MsgDorUpper == <<"S","I","N","T","O"," ","M","U","I","T","A"," ","D","O","R"," ","N","O"," ","J","O","E","L","H","O">>
MsgOi == <<"o","i">>
MsgTreino == <<"Q","u","e","r","o"," ","u","m"," ","t","r","e","i","n","o">>
MsgPeso == <<"p","e","s","o">>
MsgTie == <<"t","r","e","i","n","o"," ","d","e"," ","f","o","r","m","a">>
MsgLong == <<"a"," ","a"," ","a"," ","a"," ","a"," ","a"," ","a"," ","a"," ","a"," ","a"," ","a"," ","a"," ","a"," ","a"," ","a"," ","a"," ","a"," ","a"," ","a"," ","a"," ","a">>
MsgLesao == <<"L","e","s","a~","o">>
ReplyRest == <<"D","e","s","c","a","n","s","e"," ","e"," ","c","o","n","s","u","l","t","e"," ","u","m"," ","m","e'","d","i","c","o">>
ReplyHi == <<" ","O","l","a'"," ">>

\* classification replies of the completion backend
JsonDict(keys, intent, confidence) ==
    [kind |-> "json",
     value |-> PyValue("dict", keys, intent, confidence, <<>>, <<>>, "medium")]

JsonKeys == {"intent", "confidence", "secondary_intents", "keywords", "urgency_level", "requires_personalization"}

ReplyNone == [kind |-> "no_response", value |-> NoneValue]

ReplyError == [kind |-> "request_error", value |-> NoneValue]

ReplyNotJson == [kind |-> "not_json", value |-> NoneValue]

ReplyEmptyDict == JsonDict({}, NoneIntent, Half)

ReplyList == [kind |-> "json", value |-> ListValue]

ReplyNoIntent == JsonDict(JsonKeys \ {"intent"}, NoneIntent, <<4, 5>>)

ReplyUnknownIntent == JsonDict(JsonKeys, "banana", <<4, 5>>)

ReplyBadConfidence == JsonDict(JsonKeys, "workout_request", <<7, 1>>)

ReplyIntent(intent) == JsonDict(JsonKeys, intent, <<4, 5>>)

AllIntentReplies ==
    {ReplyNone, ReplyError, ReplyNotJson, ReplyEmptyDict, ReplyList, ReplyNoIntent,
     ReplyUnknownIntent, ReplyBadConfidence}
    \cup {ReplyIntent(i) : i \in IntentSet}

\* chat and welcome completions
TextReply(text) == [kind |-> "text", text |-> text]

NoTextReply == [kind |-> "no_response", text |-> <<>>]

ChatReplies == {NoTextReply, TextReply(ReplyRest)}

WelcomeReplies == {NoTextReply}

\* user_rating: None, 0 and 4.5
Ratings == {NoneNumber, <<0, 1>>, <<9, 2>>}

(***************************************************************************)
(* Bounds of the runs                                                      *)
(***************************************************************************)
MaxConversations == 2

MaxMessages == 3

MaxTicks == 2

\* clock advances, in seconds
TickSteps == {5400, 90000}

(***************************************************************************)
(* State                                                                   *)
(***************************************************************************)
Store ==
    [conversations |-> conversations, messages |-> messages,
     contexts |-> contexts, cache |-> cache]

Tables == [conversations |-> conversations, messages |-> messages, contexts |-> contexts]

Commit(st) ==
    /\ conversations' = st.conversations
    /\ messages' = st.messages
    /\ contexts' = st.contexts
    /\ cache' = st.cache

EmptyStore == [conversations |-> <<>>, messages |-> <<>>, contexts |-> <<>>, cache |-> <<>>]

\* no call is in progress and no returned value is waiting for the caller
Idle == [op |-> "idle"]

\* the service and its tables before any call
Init ==
    /\ now = 0
    /\ ticks = 0
    /\ is_available \in BOOLEAN
    /\ conversations = <<>>
    /\ messages = <<>>
    /\ contexts = <<>>
    /\ cache = <<>>
    /\ computed = <<>>
    /\ detected = <<>>
    /\ result = Idle

(***************************************************************************)
(* Operations                                                              *)
(***************************************************************************)
StartConversation(user, conversation_type, initial_message, welcome_reply, intent_reply, chat_reply) ==
    /\ result = Idle
    /\ \E recent \in {RecentConversations(conversations, user, now)} :
        \E recent_conversation \in (IF recent = {} THEN {0} ELSE recent) :
          /\ \/ Len(conversations) < MaxConversations /\ Len(messages) < MaxMessages
             \/ ShouldResume(recent_conversation, initial_message)
          /\ \E o \in {StartOutcome(Store, is_available, now, user, conversation_type,
                                initial_message, recent_conversation,
                                welcome_reply, intent_reply, chat_reply)} :
              /\ Commit(o.st)
              /\ result' = [op |-> "start", user |-> user,
                            conversation_type |-> conversation_type,
                            initial_message |-> initial_message,
                            at |-> now, available |-> is_available,
                            before |-> Tables, ret |-> o.ret]
              /\ UNCHANGED <<now, ticks, is_available, computed, detected>>

ProcessUserMessage(cid, message, intent_reply, chat_reply) ==
    /\ result = Idle
    /\ Len(messages) < MaxMessages
    /\ \E o \in {ProcessOutcome(Store, is_available, now, cid, message,
                               intent_reply, chat_reply)} :
        /\ Commit(o.st)
        /\ result' = [op |-> "process", conversation_id |-> cid,
                      message |-> message, at |-> now, available |-> is_available,
                      before |-> Tables, ret |-> o.ret, request |-> o.request]
        /\ UNCHANGED <<now, ticks, is_available, computed, detected>>

EndConversation(cid, user_rating) ==
    /\ result = Idle
    /\ \E o \in {EndOutcome(Store, now, cid, user_rating)} :
        /\ Commit(o.st)
        /\ result' = [op |-> "end", conversation_id |-> cid,
                      user_rating |-> user_rating, at |-> now,
                      before |-> Tables, ret |-> o.ret]
        /\ UNCHANGED <<now, ticks, is_available, computed, detected>>

\* time passes
Tick(d, limit) ==
    /\ result = Idle
    /\ ticks < limit
    /\ now' = now + d
    /\ ticks' = ticks + 1
    /\ UNCHANGED <<is_available, conversations, messages, contexts, cache, computed, detected, result>>

\* the completion backend goes down or comes back
SetAvailability(b) ==
    /\ result = Idle
    /\ b # is_available
    /\ is_available' = b
    /\ UNCHANGED <<now, ticks, conversations, messages, contexts, cache, computed, detected, result>>

\* the caller takes the returned value; the service is ready for the next call
Return ==
    /\ result # Idle
    /\ result' = Idle
    /\ UNCHANGED <<now, ticks, is_available, conversations, messages, contexts, cache, computed, detected>>

ConversationTypes == {"general_fitness"}

InitialMessages == {NoneText, <<>>, MsgOi}

Messages == {MsgDor}

IntentReplies == {ReplyNone, ReplyList, ReplyNoIntent}

Next ==
    \/ \E user \in Users, conversation_type \in ConversationTypes,
          initial_message \in InitialMessages, welcome_reply \in WelcomeReplies,
          intent_reply \in IntentReplies, chat_reply \in ChatReplies :
          StartConversation(user, conversation_type, initial_message,
                            welcome_reply, intent_reply, chat_reply)
    \/ \E cid \in 1..(Len(conversations) + 1), message \in Messages,
          intent_reply \in IntentReplies, chat_reply \in ChatReplies :
          ProcessUserMessage(cid, message, intent_reply, chat_reply)
    \/ \E cid \in 1..(Len(conversations) + 1), user_rating \in Ratings :
          EndConversation(cid, user_rating)
    \/ \E d \in TickSteps : Tick(d, MaxTicks)
    \/ \E b \in BOOLEAN : SetAvailability(b)
    \/ Return

Spec == Init /\ [][Next]_vars

(***************************************************************************)
(* The classifier on its own: _analyze_message_intent called directly,     *)
(* with the clock and the backend changing between calls.  computed keeps, *)
(* for each text, the payload last computed for it (not read from the      *)
(* cache), where it came from and when.                                    *)
(***************************************************************************)
NeverComputed == [known |-> FALSE, payload |-> NoneValue, source |-> "", at |-> 0]

AnalyzeCall(message, intent_reply) ==
    /\ result = Idle
    /\ \E a \in {AnalyzeMessageIntent(message, cache, is_available, intent_reply, now)} :
        /\ cache' = a.cache
        /\ computed' = IF a.source = "cache" THEN computed
                       ELSE (message :> [known |-> TRUE, payload |-> a.payload,
                                         source |-> a.source, at |-> now]) @@ computed
        /\ result' = [op |-> "analyze", message |-> message, at |-> now,
                      available |-> is_available,
                      prior |-> IF message \in DOMAIN computed THEN computed[message]
                                ELSE NeverComputed,
                      payload |-> a.payload, source |-> a.source]
        /\ UNCHANGED <<now, ticks, is_available, conversations, messages, contexts, detected>>

MaxClassifyTicks == 2

ClassifyTickSteps == {1800}

ClassifyMessages == {MsgDor, MsgDorUpper, MsgOi}

ClassifyReplies ==
    {ReplyNone, ReplyNotJson, ReplyEmptyDict, ReplyList, ReplyUnknownIntent,
     ReplyBadConfidence, ReplyIntent("nutrition_advice")}

NextClassify ==
    \/ \E message \in ClassifyMessages, intent_reply \in ClassifyReplies :
          AnalyzeCall(message, intent_reply)
    \/ \E d \in ClassifyTickSteps : Tick(d, MaxClassifyTicks)
    \/ \E b \in BOOLEAN : SetAvailability(b)
    \/ Return

SpecClassify == Init /\ [][NextClassify]_vars

(***************************************************************************)
(* Context maintenance and the fallback responder on their own, applied to *)
(* conversations that start_conversation created.                          *)
(***************************************************************************)
\* the store after ana, then guest, started a conversation with the backend down
StoreOfOne ==
    StartOutcome(EmptyStore, FALSE, 0, "ana", "general_fitness", NoneText, 0,
                 NoTextReply, ReplyNone, NoTextReply).st

StoreOfTwo ==
    StartOutcome(StoreOfOne, FALSE, 0, "guest", "general_fitness", NoneText, 0,
                 NoTextReply, ReplyNone, NoTextReply).st

InitStarted(st) ==
    /\ now = 0
    /\ ticks = 0
    /\ is_available \in BOOLEAN
    /\ conversations = st.conversations
    /\ messages = st.messages
    /\ contexts = st.contexts
    /\ cache = st.cache
    /\ computed = <<>>
    /\ detected = <<>>
    /\ result = Idle

UpdateContextCall(cid, message, intent_analysis) ==
    /\ result = Idle
    /\ contexts' = UpdateConversationContext(contexts, cid, message, intent_analysis)
    /\ result' = [op |-> "update_context", conversation_id |-> cid,
                  message |-> message, intent_analysis |-> intent_analysis,
                  before |-> Tables]
    /\ UNCHANGED <<now, ticks, is_available, conversations, messages, cache, computed, detected>>

\* how many of the nine intents the context runs draw from
MaxTopicIntents == 6

TopicPayloads ==
    {ReplyIntent(Intents[i]).value : i \in 1..(IF MaxTopicIntents < Len(Intents) THEN MaxTopicIntents ELSE Len(Intents))}
    \cup {ReplyNoIntent.value}

NextTopics ==
    \/ \E message \in {MsgOi, MsgLong}, intent_analysis \in TopicPayloads :
          UpdateContextCall(1, message, intent_analysis)
    \/ Return

SpecTopics == InitStarted(StoreOfOne) /\ [][NextTopics]_vars

FallbackCall(cid, message, intent_analysis) ==
    /\ result = Idle
    /\ result' = [op |-> "fallback", conversation_id |-> cid, message |-> message,
                  intent_analysis |-> intent_analysis,
                  response |-> GenerateFallbackResponse(
                                   FirstName(conversations[cid].user), intent_analysis)]
    /\ UNCHANGED <<now, ticks, is_available, conversations, messages, contexts, cache, computed, detected>>

FallbackMessages == {MsgDor, MsgOi, MsgPeso, MsgTreino}

\* the payloads process_user_message can hold: truthy dicts
FallbackPayloads ==
    {r.value : r \in {x \in AllIntentReplies : x.kind = "json" /\ x.value.type = "dict" /\ Truthy(x.value)}}
    \cup {RuleBasedIntentAnalysis(m) : m \in FallbackMessages}

NextFallback ==
    \/ \E cid \in DOMAIN conversations, message \in FallbackMessages,
          intent_analysis \in FallbackPayloads :
          FallbackCall(cid, message, intent_analysis)
    \/ Return

SpecFallback == InitStarted(StoreOfTwo) /\ [][NextFallback]_vars

(***************************************************************************)
(* Context maintenance with the sequence of detected intents kept, to      *)
(* compare the stored topics with the order of detection.                  *)
(***************************************************************************)
\* how many detections a run records
MaxDetections == 7

DetectedCall(cid, message, intent_analysis) ==
    /\ result = Idle
    /\ Len(detected) < MaxDetections
    /\ contexts' = UpdateConversationContext(contexts, cid, message, intent_analysis)
    /\ detected' = Append(detected, [conversation |-> cid,
                                     intent |-> GetIntent(intent_analysis, NoneIntent)])
    /\ result' = [op |-> "update_context", conversation_id |-> cid,
                  message |-> message, intent_analysis |-> intent_analysis,
                  before |-> Tables]
    /\ UNCHANGED <<now, ticks, is_available, conversations, messages, cache, computed>>

DetectedPayloads == TopicPayloads \ {ReplyNoIntent.value}

NextDetected ==
    \/ \E intent_analysis \in DetectedPayloads : DetectedCall(1, MsgOi, intent_analysis)
    \/ Return

SpecDetected == InitStarted(StoreOfOne) /\ [][NextDetected]_vars

(***************************************************************************)
(* The rule-based classifier on its own, applied to texts put together     *)
(* from a few phrases.                                                     *)
(***************************************************************************)
PhraseOi == <<"o","i">>
PhraseTreino == <<"t","r","e","i","n","o">>
PhraseTreinar == <<"T","r","e","i","n","o"," ","p","a","r","a"," ","t","r","e","i","n","a","r">>
PhraseForma == <<"f","o","r","m","a">>
PhraseDor == <<"d","o","r"," ","p","r","o","b","l","e","m","a">>
PhraseDormir == <<"D","O","R","M","I","R">>
PhraseUrgente == <<"u","r","g","e","n","t","e">>
PhrasePeso == <<"p","e","s","o"," ","a","c","a","d","e","m","i","a">>
PhraseLesao == <<"L","e","s","a~","o">>
PhraseQuantas == <<"q","u","a","n","t","a","s"," ","v","e","z","e","s">>

RulePhrases ==
    {PhraseOi, PhraseTreino, PhraseTreinar, PhraseForma, PhraseDor, PhraseDormir,
     PhraseUrgente, PhrasePeso, PhraseLesao, PhraseQuantas}

\* how many phrases a text is put together from
MaxPhrases == 3

\* the texts of at most n phrases, separated by one space
RECURSIVE PhraseTexts(_)
PhraseTexts(n) ==
    IF n = 0 THEN {<<>>}
    ELSE LET shorter == PhraseTexts(n - 1)
         IN  shorter \cup {IF t = <<>> THEN p ELSE t \o <<" ">> \o p :
                              t \in shorter, p \in RulePhrases}

RuleMessages == PhraseTexts(MaxPhrases)

RuleBasedCall(message) ==
    /\ result = Idle
    /\ result' = [op |-> "rule_based", message |-> message,
                  payload |-> RuleBasedIntentAnalysis(message)]
    /\ UNCHANGED <<now, ticks, is_available, conversations, messages, contexts, cache, computed, detected>>

NextRules ==
    \/ \E message \in RuleMessages : RuleBasedCall(message)
    \/ Return

SpecRules == Init /\ [][NextRules]_vars

(***************************************************************************)
(* Failing collaborators.  A call is given the collaborator step that      *)
(* raises while it runs: fault is "none", "conversation" (a query or write *)
(* of the Conversation table), "save_user_message", "save_intent" (the     *)
(* save() after the back-fill), "save_ai_message", "context" (a ChatContext*)
(* read or write), "cache" (cache.get or cache.set) or "backend" (a        *)
(* completion request).  A body returns what the try block leaves: the     *)
(* store and either the returned value or the exception raised.            *)
(***************************************************************************)
Faults ==
    {"none", "conversation", "save_user_message", "save_intent",
     "save_ai_message", "context", "cache", "backend"}

Raised(exception) == [kind |-> "raised", exception |-> exception]

StartError ==
    [kind |-> "error", error |-> "Nao foi possivel iniciar conversa",
     fallback |-> "Tente novamente em alguns instantes"]

EndError == [kind |-> "error", error |-> "Erro ao finalizar conversa"]

RequestError == [kind |-> "request_error", text |-> <<>>]

\* Variant: only the DoesNotExist handler is there
TryExceptNotFoundOnly(o, not_found, generic) ==
    IF o.ret.kind = "raised" /\ o.ret.exception = "DoesNotExist"
    THEN [o EXCEPT !.ret = not_found]
    ELSE o

\* except Conversation.DoesNotExist: ... except Exception: ...
TryExcept(o, not_found, generic) ==
    IF o.ret.kind # "raised" THEN o
    ELSE [o EXCEPT !.ret = IF o.ret.exception = "DoesNotExist" THEN not_found
                           ELSE generic]

\* _analyze_message_intent with its except branch (lines 262-264)
AnalyzeWithFault(message, ch, available, reply, t, fault) ==
    IF fault = "cache"
    THEN [payload |-> DefaultIntent, cache |-> ch, source |-> "except"]
    ELSE AnalyzeMessageIntent(message, ch, available,
                              IF fault = "backend" THEN ReplyError ELSE reply, t)

\* _generate_ai_response with its except branch (lines 400-404)
GenerateAiResponseWithFault(available, reply, fault) ==
    IF available /\ fault \in {"context", "backend"} THEN NoAiResponse
    ELSE GenerateAiResponse(available, reply)

\* the try block of process_user_message (lines 100-164)
ProcessBody(st, available, t, cid, message, intent_reply, chat_reply, fault) ==
    IF fault = "conversation"
    THEN [st |-> st, ret |-> Raised("DatabaseError"), request |-> <<>>]
    ELSE IF cid \notin DOMAIN st.conversations
    THEN [st |-> st, ret |-> Raised("DoesNotExist"), request |-> <<>>]
    ELSE IF IsExpired(st.conversations[cid], t) THEN ExpiredOutcome(st, cid, message)
    ELSE IF fault = "save_user_message"
    THEN [st |-> st, ret |-> Raised("DatabaseError"), request |-> <<>>]
    ELSE LET ms1 == SaveUserMessage(st.messages, cid, message)
             analysis == AnalyzeWithFault(message, st.cache, available,
                                          intent_reply, t, fault)
             intent_analysis == analysis.payload
             st1 == [st EXCEPT !.messages = ms1, !.cache = analysis.cache]
         IN  IF intent_analysis.type # "dict"
             THEN [st |-> st1, ret |-> Raised("AttributeError"), request |-> <<>>]
             ELSE IF fault = "save_intent"
             THEN [st |-> st1, ret |-> Raised("DatabaseError"), request |-> <<>>]
             ELSE LET ms2 == SetIntentDetected(ms1, Len(ms1),
                                 GetIntent(intent_analysis, "general_question"))
                      cx == IF fault = "context" THEN st.contexts
                            ELSE UpdateConversationContext(st.contexts, cid, message,
                                                           intent_analysis)
                      st2 == [st1 EXCEPT !.messages = ms2, !.contexts = cx]
                      request == IF available /\ fault # "context"
                                 THEN ChatRequest(ms2, cx, cid, message, intent_analysis)
                                 ELSE <<>>
                  IN  IF fault = "save_ai_message"
                      THEN [st |-> st2, ret |-> Raised("DatabaseError"),
                            request |-> request]
                      ELSE ReplyOutcome(st2, available, cid, message, intent_analysis,
                               GenerateAiResponseWithFault(available, chat_reply, fault),
                               request)

\* process_user_message, handlers included
ProcessWithFault(st, available, t, cid, message, intent_reply, chat_reply, fault) ==
    TryExcept(ProcessBody(st, available, t, cid, message, intent_reply, chat_reply, fault), NotFound, ProcessingError)

\* _generate_welcome_message with its except branch (lines 557-564)
WelcomeWithFault(available, reply, user, conversation_type, fault) ==
    IF available /\ fault = "context"
    THEN [content |-> <<"welcome_error">>, confidence |-> <<3, 5>>]
    ELSE GenerateWelcomeMessage(available,
                                IF fault = "backend" THEN RequestError ELSE reply,
                                user, conversation_type)

\* the try block of start_conversation (lines 36-85)
StartBody(st, available, t, user, conversation_type, initial_message, recent_conversation, welcome_reply, intent_reply, chat_reply, fault) ==
    IF fault = "conversation" THEN [st |-> st, ret |-> Raised("DatabaseError")]
    ELSE IF ShouldResume(recent_conversation, initial_message)
    THEN StartOutcome(st, available, t, user, conversation_type, initial_message,
                      recent_conversation, welcome_reply, intent_reply, chat_reply)
    ELSE LET cs == Append(st.conversations,
                          NewConversation(user, conversation_type, t))
             cid == Len(cs)
             cx == IF fault = "context" THEN st.contexts
                   ELSE InitializeConversationContext(st.contexts, cid, user)
             st1 == [st EXCEPT !.conversations = cs, !.contexts = cx]
             welcome == WelcomeWithFault(available, welcome_reply, user,
                                         conversation_type, fault)
             created == [kind |-> "ok", conversation_id |-> cid, status |-> "created",
                         conversation_type |-> conversation_type,
                         ai_available |-> available]
         IN  IF FalsyText(initial_message)
             THEN IF fault = "save_ai_message"
                  THEN [st |-> st1, ret |-> Raised("DatabaseError")]
                  ELSE [st |-> [st1 EXCEPT !.messages =
                                   SaveAiMessage(st1.messages, cid, welcome.content,
                                                 welcome.confidence, NoneIntent)],
                        ret |-> created]
             ELSE IF fault = "save_user_message"
                  THEN [st |-> st1, ret |-> Raised("DatabaseError")]
                  ELSE [st |-> ProcessWithFault(
                                   [st1 EXCEPT !.messages =
                                       SaveUserMessage(st1.messages, cid,
                                                       initial_message)],
                                   available, t, cid, initial_message,
                                   intent_reply, chat_reply, fault).st,
                        ret |-> created]

\* start_conversation, handler included
StartWithFault(st, available, t, user, conversation_type, initial_message, recent_conversation, welcome_reply, intent_reply, chat_reply, fault) ==
    TryExcept(StartBody(st, available, t, user, conversation_type, initial_message, recent_conversation, welcome_reply, intent_reply, chat_reply, fault), StartError, StartError)

\* end_conversation: the try block (lines 719-733) and the handlers
EndWithFault(st, t, cid, user_rating, fault) ==
    TryExcept(IF fault = "conversation"
              THEN [st |-> st, ret |-> Raised("DatabaseError")]
              ELSE IF cid \notin DOMAIN st.conversations
              THEN [st |-> st, ret |-> Raised("DoesNotExist")]
              ELSE EndOutcome(st, t, cid, user_rating),
              [kind |-> "error", error |-> "Conversa nao encontrada"], EndError)

\* one entry of the history list
HistoryEntry(ms, id) ==
    [id |-> id, type |-> ms[id].message_type, content |-> ms[id].content,
     intent |-> ms[id].intent_detected, confidence |-> ms[id].confidence_score]

HistoryList(items) == [kind |-> "list", items |-> items]

\* get_conversation_history: the try block (lines 693-708) and the handlers
GetHistoryWithFault(st, cid, limit, fault) ==
    TryExcept(IF fault = "conversation"
              THEN [st |-> st, ret |-> Raised("DatabaseError")]
              ELSE IF cid \notin DOMAIN st.conversations
              THEN [st |-> st, ret |-> Raised("DoesNotExist")]
              ELSE LET ids == SelectSeq([i \in DOMAIN st.messages |-> i],
                                        LAMBDA i : st.messages[i].conversation = cid)
                       first == SubSeq(ids, 1, IF Len(ids) < limit THEN Len(ids) ELSE limit)
                   IN  [st |-> st,
                        ret |-> HistoryList([k \in DOMAIN first |->
                                                HistoryEntry(st.messages, first[k])])],
              HistoryList(<<>>), HistoryList(<<>>))

\* calls that store messages are made while the table is shorter than this
MaxFaultMessages == 2

StartConversationWithFault(user, conversation_type, initial_message, welcome_reply, intent_reply, chat_reply, fault) ==
    /\ result = Idle
    /\ \E recent \in {RecentConversations(conversations, user, now)} :
        \E recent_conversation \in (IF recent = {} THEN {0} ELSE recent) :
          /\ \/ Len(conversations) < MaxConversations /\ Len(messages) < MaxFaultMessages
             \/ ShouldResume(recent_conversation, initial_message)
          /\ \E o \in {StartWithFault(Store, is_available, now, user, conversation_type,
                                initial_message, recent_conversation,
                                welcome_reply, intent_reply, chat_reply, fault)} :
              /\ Commit(o.st)
              /\ result' = [op |-> "start", user |-> user,
                            conversation_type |-> conversation_type,
                            initial_message |-> initial_message,
                            at |-> now, available |-> is_available, fault |-> fault,
                            before |-> Tables, ret |-> o.ret]
              /\ UNCHANGED <<now, ticks, is_available, computed, detected>>

ProcessUserMessageWithFault(cid, message, intent_reply, chat_reply, fault) ==
    /\ result = Idle
    /\ Len(messages) < MaxFaultMessages
    /\ \E o \in {ProcessWithFault(Store, is_available, now, cid, message,
                                 intent_reply, chat_reply, fault)} :
        /\ Commit(o.st)
        /\ result' = [op |-> "process", conversation_id |-> cid,
                      message |-> message, at |-> now, available |-> is_available,
                      fault |-> fault,
                      before |-> Tables, ret |-> o.ret, request |-> o.request]
        /\ UNCHANGED <<now, ticks, is_available, computed, detected>>

EndConversationWithFault(cid, user_rating, fault) ==
    /\ result = Idle
    /\ \E o \in {EndWithFault(Store, now, cid, user_rating, fault)} :
        /\ Commit(o.st)
        /\ result' = [op |-> "end", conversation_id |-> cid,
                      user_rating |-> user_rating, at |-> now, fault |-> fault,
                      before |-> Tables, ret |-> o.ret]
        /\ UNCHANGED <<now, ticks, is_available, computed, detected>>

GetConversationHistory(cid, limit, fault) ==
    /\ result = Idle
    /\ result' = [op |-> "history", conversation_id |-> cid, limit |-> limit,
                  at |-> now, fault |-> fault, before |-> Tables,
                  ret |-> GetHistoryWithFault(Store, cid, limit, fault).ret]
    /\ UNCHANGED <<now, ticks, is_available, conversations, messages, contexts, cache, computed, detected>>

\* how many clock advances a run with faults has
MaxFaultTicks == 1

FaultIntentReplies == {ReplyNone, ReplyIntent("nutrition_advice")}

NextFaults ==
    \/ \E user \in {"ana"}, initial_message \in {NoneText, MsgOi},
          intent_reply \in FaultIntentReplies, fault \in Faults :
          StartConversationWithFault(user, "general_fitness", initial_message,
                                     NoTextReply, intent_reply, NoTextReply, fault)
    \/ \E cid \in 1..(Len(conversations) + 1),
          intent_reply \in FaultIntentReplies, chat_reply \in ChatReplies,
          fault \in Faults :
          ProcessUserMessageWithFault(cid, MsgDor, intent_reply, chat_reply, fault)
    \/ \E cid \in 1..(Len(conversations) + 1), user_rating \in {NoneNumber, <<9, 2>>},
          fault \in {"none", "conversation"} :
          EndConversationWithFault(cid, user_rating, fault)
    \/ \E cid \in 1..(Len(conversations) + 1), limit \in {1, 50},
          fault \in {"none", "conversation"} :
          GetConversationHistory(cid, limit, fault)
    \/ \E d \in {90000} : Tick(d, MaxFaultTicks)
    \/ \E b \in BOOLEAN : SetAvailability(b)
    \/ Return

SpecFaults == Init /\ [][NextFaults]_vars

(***************************************************************************)
(* Properties                                                              *)
(***************************************************************************)
\* the stored topics_of_interest list of a conversation, <<>> when none
TopicsIn(cx, cid) ==
    IF HasContext(cx, cid, "preferences", "topics_of_interest")
    THEN cx[<<cid, "preferences", "topics_of_interest">>].context_value.topics
    ELSE <<>>

NoDuplicates(s) == \A i, j \in DOMAIN s : s[i] = s[j] => i = j

\* the conversation a call names existed before the call
KnownBefore == result.conversation_id \in DOMAIN result.before.conversations

AgeAtCall == result.at - result.before.conversations[result.conversation_id].created_at

\* C1: a start_conversation call without an initial message, by a user who has an
\* active conversation created less than 2 hours before, returns status "resumed"
\* with the id of an active conversation of that user from the resume window, and
\* leaves the conversation, message and context tables as they were.
C1_ResumeKeepsTables ==
    (/\ result.op = "start"
     /\ FalsyText(result.initial_message)
     /\ \E c \in DOMAIN result.before.conversations :
           /\ result.before.conversations[c].user = result.user
           /\ result.before.conversations[c].status = "active"
           /\ result.at - result.before.conversations[c].created_at < 2 * 3600)
    => /\ result.ret.status = "resumed"
       /\ result.ret.conversation_id \in DOMAIN result.before.conversations
       /\ LET c == result.before.conversations[result.ret.conversation_id]
          IN  /\ c.user = result.user
              /\ c.status = "active"
              /\ result.at - c.created_at <= 2 * 3600
       /\ Tables = result.before

\* C1 witness: a resume 1.5 hours after creation, with two conversations stored
C1_Witness ==
    /\ result.op = "start"
    /\ result.ret.status = "resumed"
    /\ Len(conversations) = 2
    /\ result.at > conversations[result.ret.conversation_id].created_at

\* C2: process_user_message on a conversation older than 24 hours, active or
\* completed, returns the Expired result and writes no message and no context.
C2_ExpiredWritesNothing ==
    (/\ result.op = "process"
     /\ KnownBefore
     /\ AgeAtCall > 24 * 3600)
    => /\ result.ret.kind = "error"
       /\ result.ret.error = "Conversa expirada"
       /\ messages = result.before.messages
       /\ contexts = result.before.contexts

\* C2 witness: the Expired result for a conversation that was ended before
C2_Witness ==
    /\ result.op = "process"
    /\ result.ret.kind = "error"
    /\ result.ret.error = "Conversa expirada"
    /\ conversations[result.conversation_id].status = "completed"

\* C3: a process_user_message call that returns a non-error result has appended
\* to the message table exactly the user message and then one assistant message
\* of that conversation, and left the conversation's status as it was.
C3_OneUserOneAssistant ==
    (result.op = "process" /\ result.ret.kind = "ok")
    => LET n == Len(result.before.messages)
           cid == result.conversation_id
       IN  /\ Len(messages) = n + 2
           /\ SubSeq(messages, 1, n) = result.before.messages
           /\ messages[n + 1].conversation = cid
           /\ messages[n + 1].message_type = "user"
           /\ messages[n + 1].content = result.message
           /\ messages[n + 2].conversation = cid
           /\ messages[n + 2].message_type = "ai"
           /\ messages[n + 2].content = result.ret.response
           /\ conversations[cid].status = result.before.conversations[cid].status

\* C3 witness: an AI-powered reply on an active conversation
C3_Witness ==
    /\ result.op = "process"
    /\ result.ret.kind = "ok"
    /\ result.ret.method = "ai_powered"
    /\ conversations[result.conversation_id].status = "active"

\* the canned text for an intent value and a user
CannedFor(intent, user) ==
    <<"fallback_responses",
      IF intent \in FallbackKeys THEN intent ELSE "general_question">>
    \o (IF FirstName(user) # <<>> THEN FirstName(user)
        ELSE <<"a","m","i","g","o","(","a",")">>)

\* C4: with the completion backend unavailable, process_user_message on an
\* existing conversation that is not expired returns method rule_based_fallback,
\* and the returned text, which is the content of the stored assistant message,
\* is the canned text of the intent it reports, with the user's name in it.
C4_FallbackWhenUnavailable ==
    (/\ result.op = "process"
     /\ ~result.available
     /\ KnownBefore
     /\ ~(AgeAtCall > 24 * 3600))
    => /\ result.ret.kind = "ok"
       /\ result.ret.method = "rule_based_fallback"
       /\ result.ret.response =
             CannedFor(result.ret.intent_detected,
                       conversations[result.conversation_id].user)
       /\ messages[Len(messages)].content = result.ret.response

\* the intent a fallback call was given
FallbackIntent == GetIntent(result.intent_analysis, "general_question")

\* C5 as stated: each of the nine intents maps to its own text.
C5_NineOwnTexts ==
    (result.op = "fallback" /\ FallbackIntent \in IntentSet)
    => result.response[2] = FallbackIntent

\* C5 as amended: six intents (workout_request, technique_question,
\* nutrition_advice, progress_inquiry, motivation_need, injury_concern) map to
\* their own text; general_question, equipment_question, schedule_planning, a
\* missing intent and any other value map to the general_question text; the text
\* carries the user's first name, or amigo(a) when the user has none.
C5_SixOwnTextsAndDefault ==
    result.op = "fallback"
    => /\ result.response[1] = "fallback_responses"
       /\ result.response[2] =
             (IF FallbackIntent \in
                   {"workout_request", "technique_question", "nutrition_advice",
                    "progress_inquiry", "motivation_need", "injury_concern"}
              THEN FallbackIntent ELSE "general_question")
       /\ SubSeq(result.response, 3, Len(result.response)) =
             (IF conversations[result.conversation_id].user = "ana"
              THEN <<"A","n","a">> ELSE <<"a","m","i","g","o","(","a",")">>)

\* C5 witness: equipment_question answered with the general_question text
C5_Witness ==
    /\ result.op = "fallback"
    /\ FallbackIntent = "equipment_question"
    /\ result.response[2] = "general_question"

\* C6: every result of _analyze_message_intent has an intent among the nine and a
\* confidence in [0,1].
C6_IntentAmongNine ==
    result.op = "analyze"
    => /\ result.payload.type = "dict"
       /\ {"intent", "confidence"} \subseteq result.payload.keys
       /\ result.payload.intent \in IntentSet
       /\ 0 <= result.payload.confidence[1]
       /\ result.payload.confidence[1] <= result.payload.confidence[2]

\* C7: when a call of _analyze_message_intent computed a payload for a text (an
\* AI-derived one, kept 1 hour, or a rule-based one, kept 30 minutes), a later
\* call on the identical text before that time has passed returns that payload
\* from the cache, calling neither the backend nor the rule-based scorer,
\* whatever the backend's availability.
C7_SecondCallFromCache ==
    (/\ result.op = "analyze"
     /\ result.prior.known
     /\ result.at < result.prior.at
                    + (IF result.prior.source = "ai" THEN 3600 ELSE 1800))
    => /\ result.payload = result.prior.payload
       /\ result.source = "cache"

\* C7 witness: an AI-derived payload returned later, with the backend down
C7_Witness ==
    /\ result.op = "analyze"
    /\ result.prior.known
    /\ result.prior.source = "ai"
    /\ result.at > result.prior.at
    /\ ~result.available
    /\ result.source = "cache"
    /\ result.payload = result.prior.payload

\* C8: every stored topics_of_interest list is free of duplicates and at most 5
\* long; the first intent recorded on a fresh conversation is stored, and a
\* second, different one is stored with it.
C8_TopicsDistinctAtMostFive ==
    /\ \A k \in DOMAIN contexts :
          k[3] = "topics_of_interest"
          => /\ NoDuplicates(contexts[k].context_value.topics)
             /\ Len(contexts[k].context_value.topics) <= 5
    /\ result.op = "update_context"
       => LET b == GetIntent(result.intent_analysis, NoneIntent)
              was == TopicsIn(result.before.contexts, result.conversation_id)
              is == TopicsIn(contexts, result.conversation_id)
          IN  /\ (b # NoneIntent /\ was = <<>>) => is = <<b>>
              /\ (b # NoneIntent /\ Len(was) = 1 /\ was[1] # b) => is = <<was[1], b>>

\* C8 witness: a sixth distinct intent recorded on a list that held five
C8_Witness ==
    /\ result.op = "update_context"
    /\ Len(TopicsIn(result.before.contexts, result.conversation_id)) = 5
    /\ GetIntent(result.intent_analysis, NoneIntent)
         \notin Range(TopicsIn(result.before.contexts, result.conversation_id))
    /\ GetIntent(result.intent_analysis, NoneIntent)
         \in Range(TopicsIn(contexts, result.conversation_id))

\* C9: end_conversation on an existing conversation sets status completed; with
\* a rating supplied (0 included) it stores that rating and returns rating_saved
\* true; without one it keeps the stored rating and returns rating_saved false.
C9_RatingStoredWhenSupplied ==
    (result.op = "end" /\ KnownBefore)
    => LET c == conversations[result.conversation_id]
           was == result.before.conversations[result.conversation_id]
       IN  /\ c.status = "completed"
           /\ result.user_rating # NoneNumber
              => /\ c.user_satisfaction_rating = result.user_rating
                 /\ result.ret.rating_saved
           /\ result.user_rating = NoneNumber
              => /\ c.user_satisfaction_rating = was.user_satisfaction_rating
                 /\ ~result.ret.rating_saved

\* C10: process_user_message and end_conversation on an id that matches no
\* conversation return the NotFound result and leave every record as it was.
C10_UnknownIdNotFound ==
    (result.op \in {"process", "end"} /\ ~KnownBefore)
    => /\ result.ret.kind = "error"
       /\ result.ret.error = "Conversa nao encontrada"
       /\ Tables = result.before

\* C10 witness: an unknown id given to process_user_message while conversations
\* exist
C10_Witness ==
    /\ result.op = "process"
    /\ result.ret.kind = "error"
    /\ result.ret.error = "Conversa nao encontrada"
    /\ Len(conversations) >= 1
    /\ result.conversation_id \notin DOMAIN conversations

\* C12: after start_conversation with a non-empty initial message returns
\* "created", the new conversation holds exactly one user message, whose content
\* is the initial message, and exactly one assistant message.
C12_InitialMessageStoredOnce ==
    (/\ result.op = "start"
     /\ ~FalsyText(result.initial_message)
     /\ result.ret.kind = "ok"
     /\ result.ret.status = "created")
    => LET mine == MessagesOf(messages, result.ret.conversation_id)
           users == SelectSeq(mine, LAMBDA m : m.message_type = "user")
           ais == SelectSeq(mine, LAMBDA m : m.message_type = "ai")
       IN  /\ Len(users) = 1
           /\ users[1].content = result.initial_message
           /\ Len(ais) = 1

\* the role and content a stored message has in a completion request
AsTurn(m) ==
    [role |-> IF m.message_type = "user" THEN "user" ELSE "assistant",
     content |-> m.content]

\* C15: a completion request built for process_user_message is one system
\* message, then the (at most 6) most recent messages the conversation held
\* before the call, in creation order, then the current user message once.
C15_HistoryBeforeCurrentMessage ==
    (result.op = "process" /\ result.request # <<>>)
    => LET req == result.request
           prior == MessagesOf(result.before.messages, result.conversation_id)
           turns == [i \in DOMAIN prior |-> AsTurn(prior[i])]
       IN  /\ Len(req) >= 2
           /\ req[1].role = "system"
           /\ SubSeq(req, 2, Len(req) - 1) = LastN(turns, 6)
           /\ req[Len(req)] = [role |-> "user", content |-> result.message]

\* C18: after a process_user_message call that returns a non-error result, the
\* intent stored on the user message of the turn, the intent stored on the
\* assistant message of the turn and the returned intent_detected are equal.
C18_OneIntentPerTurn ==
    (result.op = "process" /\ result.ret.kind = "ok")
    => LET n == Len(result.before.messages)
       IN  /\ messages[n + 1].intent_detected = messages[n + 2].intent_detected
           /\ messages[n + 2].intent_detected = result.ret.intent_detected

\* the intents detected on a conversation, in the order of detection
DetectedOn(cid) ==
    LET mine == SelectSeq(detected, LAMBDA d : d.conversation = cid)
    IN  [i \in DOMAIN mine |-> mine[i].intent]

\* the n most recently detected distinct elements of s
MostRecent(s, n) ==
    {s[i] : i \in {k \in DOMAIN s : Cardinality({s[j] : j \in k..Len(s)}) <= n}}

\* C13: the stored topics_of_interest list of a conversation holds the (up to) 5
\* distinct intents of that conversation that were detected most recently, so
\* that an intent detected again is not dropped before one detected longer ago.
C13_TopicsAreMostRecentFive ==
    \A cid \in DOMAIN conversations :
        Range(TopicsIn(contexts, cid)) = MostRecent(DetectedOn(cid), 5)

\* the score of the i-th intent of the keyword table for a lower-cased text, as
\* <<keywords found, keywords listed>>
ScoreOf(i, text) ==
    <<Cardinality({k \in DOMAIN intent_keywords[i].keywords :
                      Contains(intent_keywords[i].keywords[k], text)}),
      Len(intent_keywords[i].keywords)>>

\* C14: the rule-based result has the intent of maximal score (found / listed
\* keywords, substrings of the lower-cased text), the first one of the table on
\* a tie, with that score as confidence; general_question with confidence 0.5
\* when no keyword occurs; as secondary intents exactly the other intents with
\* score > 0.2; urgency high iff the text contains dor, lesao or urgente.
C14_RuleBasedByMaximalScore ==
    result.op = "rule_based"
    => \E text \in {Lower(result.message)} :
       \E score \in {[i \in DOMAIN intent_keywords |-> ScoreOf(i, text)]} :
          LET p == result.payload
              found == {i \in DOMAIN score : score[i][1] > 0}
              above(i, j) == score[i][1] * score[j][2] > score[j][1] * score[i][2]
          IN  /\ found = {}
                 => /\ p.intent = "general_question"
                    /\ p.confidence[1] * 2 = p.confidence[2]
                    /\ p.secondary_intents = <<>>
              /\ found # {}
                 => \E i \in found :
                       /\ \A j \in found : ~above(j, i)
                       /\ \A j \in found : j < i => above(i, j)
                       /\ p.intent = intent_keywords[i].intent
                       /\ p.confidence[1] * score[i][2] = score[i][1] * p.confidence[2]
                       /\ NoDuplicates(p.secondary_intents)
                       /\ Range(p.secondary_intents) =
                            {intent_keywords[j].intent :
                               j \in {k \in found \ {i} : 5 * score[k][1] > score[k][2]}}
              /\ p.urgency_level =
                    (IF \/ Contains(<<"d","o","r">>, text)
                        \/ Contains(<<"l","e","s","a~","o">>, text)
                        \/ Contains(<<"u","r","g","e","n","t","e">>, text)
                     THEN "high" ELSE "medium")

\* C14 witness: two intents tie at 2/5; the first of the table wins, the other
\* one is the secondary intent
C14_Witness ==
    /\ result.op = "rule_based"
    /\ result.payload.intent = "equipment_question"
    /\ result.payload.secondary_intents = <<"injury_concern">>
    /\ result.payload.confidence = <<2, 5>>
    /\ result.payload.urgency_level = "high"

\* C11: start_conversation, process_user_message, end_conversation and
\* get_conversation_history return a value whichever collaborator step raises:
\* a success result, NotFound, Expired or the operation's generic error for the
\* first three, a list for the last; no exception reaches the caller.
C11_NoExceptionReachesCaller ==
    /\ result.op \in {"start", "process", "end"}
       => \/ result.ret.kind = "ok"
          \/ /\ result.ret.kind = "error"
             /\ result.ret.error \in
                  {"Conversa nao encontrada", "Conversa expirada",
                   IF result.op = "start" THEN "Nao foi possivel iniciar conversa"
                   ELSE IF result.op = "process" THEN "Erro ao processar mensagem"
                   ELSE "Erro ao finalizar conversa"}
    /\ result.op = "history" => result.ret.kind = "list"

\* C11 witness: the welcome message cannot be saved and start_conversation
\* returns its generic error
C11_Witness ==
    /\ result.op = "start"
    /\ result.fault = "save_ai_message"
    /\ result.ret.kind = "error"
    /\ result.ret.error = "Nao foi possivel iniciar conversa"

\* C16: when start_conversation returns its generic error, the conversation
\* table is what it was before the call.
C16_FailedStartLeavesNoConversation ==
    (result.op = "start" /\ result.ret.kind = "error")
    => conversations = result.before.conversations

\* C17: when process_user_message returns its generic processing error, the
\* message table is what it was before the call.
C17_ProcessingErrorStoresNoMessage ==
    (/\ result.op = "process"
     /\ result.ret.kind = "error"
     /\ result.ret.error = "Erro ao processar mensagem")
    => messages = result.before.messages
====
